---- MODULE Spec2Model ----
(***************************************************************************)
(* Model of the Myriad alarm controller: two Arduino sketches that blink   *)
(* an LED and drive a buzzer while an "active" flag, set and cleared by    *)
(* single serial command bytes, is true.                                   *)
(*                                                                         *)
(*   simple variant     src/arduino/main/main.ino                          *)
(*   elaborate variant  src/unnamed/part_000                               *)
(*                                                                         *)
(* Every state with pc = "loop" is a state between two iterations of       *)
(* loop(): the state at the end of an iteration.  The environment advances *)
(* the millisecond clock (Tick, Idle) and delivers bytes to the serial     *)
(* receiver (Receive) between iterations.                                  *)
(*                                                                         *)
(* Time: now is the true time since boot; millis() is now modulo 2^w.  The *)
(* clock advances in steps of Quantum between iterations, and any number   *)
(* of steps may pass without an iteration, so the time between two         *)
(* iterations is any multiple of Quantum, 0 included.  A run is followed   *)
(* from boot for MaxTime ms, or, after an idle period that lasts until     *)
(* WrapLead ms before the counter wraps, for WrapSpan ms across the wrap.  *)
(*                                                                         *)
(* The variables justRead, ledStamp, toneSince, ledRun, toneRun, afterTone *)
(* and pendingSince are history variables: the sketches do not hold them   *)
(* and no action reads them for anything but their own update.             *)
(***************************************************************************)
EXTENDS Integers, Sequences, FiniteSets, TLC

(* ------------------------------ bounds --------------------------------- *)

\* Width of the millisecond counter in the model.  unsigned long has 32 bits
\* on the target; the model keeps the wrap but narrows the counter.
ClockBits == 12

\* Granularity of the clock advances between two iterations, in ms.
Quantum == 50

\* Longest time, in ms, a run is followed within one epoch of the clock.
MaxTime == 900

\* How long before the wrap of the counter the second epoch starts, in ms.
WrapLead == 250

\* How long, in ms, a run is followed within the second epoch.
WrapSpan == 500

\* Bytes the serial receiver holds at most.
MaxQueue == 2

\* Clock range, in milliseconds, explored under fair scheduling.
LiveSpan == 350

(* ------------------------- program constants --------------------------- *)

ledInterval == 100

buzzerInterval == 300

buzzerSilence == 200

blinkInterval == 250

HIGH == TRUE

LOW == FALSE

BEEP == "BEEP"

PAUSE1 == "PAUSE1"

BOO == "BOO"

PAUSE2 == "PAUSE2"

ToneState == {BEEP, PAUSE1, BOO, PAUSE2}

\* The bytes the receiver can deliver: the two commands and one other byte.
Bytes == {"0", "1", "x"}

\* What an iteration reads when Serial.available() is 0.
NoByte == "none"

\* The value of justRead when the latest step was not an iteration of loop().
NoIteration == "-"

\* Value of pendingSince when no activation waits for the LED.
NotPending == -1

(* ------------------------ unsigned arithmetic -------------------------- *)

Modulus == 2 ^ ClockBits

\* Conversion of an integer to unsigned long: reduction modulo 2^w.
ULong(x) == x % Modulus

VARIABLES
  variant,               \* which sketch runs: "simple" or "elaborate"
  pc,                    \* "setup" before setup() has run, "loop" after
  now,                   \* true time since boot in ms (never wraps)
  rx,                    \* bytes held by the serial receiver, oldest first
  isActive,
  previousLedMillis,     \* elaborate
  ledState,              \* elaborate
  previousBuzzerMillis,  \* elaborate
  toneState,             \* elaborate
  previousMillis,        \* simple
  state,                 \* simple
  ledPin,                \* level of LED_PIN
  greenPin,              \* level of LED_PIN_GREEN (elaborate)
  buzzerPin,             \* level written to BUZZER_PIN by digitalWrite (simple)
  buzzerTone,            \* frequency of the tone on BUZZER_PIN, 0 = none (elaborate)
  justRead,              \* history: what the latest step read if it was an iteration, else NoIteration
  ledStamp,              \* history: true time of the latest LED flip (0 = boot)
  toneSince,             \* history: true time of the latest change of toneState
  ledRun,                \* history: the LED output has flipped in the current active period
  toneRun,               \* history: toneState has changed in the current active period
  afterTone,             \* history: the sequencer has silenced a tone in the current active period and started none since
  pendingSince           \* history: true time of the iteration that activated, while the LED has not been high since; else NotPending

vars == <<variant, pc, now, rx, isActive, previousLedMillis, ledState,
          previousBuzzerMillis, toneState, previousMillis, state, ledPin,
          greenPin, buzzerPin, buzzerTone, justRead, ledStamp, toneSince,
          ledRun, toneRun,
                 afterTone, pendingSince>>

\* millis(): the counter wraps at 2^w.
millis == ULong(now)

(* --------------------------- elaborate variant ------------------------- *)

\* The globals and outputs of the elaborate sketch as one record.
Elaborate ==
  [isActive |-> isActive, previousLedMillis |-> previousLedMillis,
   ledState |-> ledState, previousBuzzerMillis |-> previousBuzzerMillis,
   toneState |-> toneState, ledPin |-> ledPin, greenPin |-> greenPin,
   buzzerTone |-> buzzerTone]

\* Mutant of CommandElaborate: '0' clears the flag and the LED but leaves the
\* tone running (the noTone call is missing).
CommandElaborate_NoSilence(m, cmd) ==
  IF cmd = "1" THEN [m EXCEPT !.isActive = TRUE]
  ELSE IF cmd = "0"
       THEN [m EXCEPT !.isActive = FALSE, !.ledPin = LOW]
       ELSE m

\* Mutant of CommandElaborate: every byte other than '1' deactivates (the
\* comparison with '0' is missing).
CommandElaborate_ElseZero(m, cmd) ==
  IF cmd = "1" THEN [m EXCEPT !.isActive = TRUE]
  ELSE [m EXCEPT !.isActive = FALSE, !.ledPin = LOW, !.buzzerTone = 0]

\* if (cmd == '1') ... else if (cmd == '0') ...
\* Mutant of CommandElaborate: '0' also rewinds the sequencer.
CommandElaborate_Rewind(m, cmd) ==
  IF cmd = "1" THEN [m EXCEPT !.isActive = TRUE]
  ELSE IF cmd = "0"
       THEN [m EXCEPT !.isActive = FALSE, !.ledPin = LOW, !.buzzerTone = 0,
                      !.toneState = PAUSE2]
       ELSE m

CommandElaborate(m, cmd) ==
  IF cmd = "1" THEN [m EXCEPT !.isActive = TRUE]
  ELSE IF cmd = "0"
       THEN [m EXCEPT !.isActive = FALSE, !.ledPin = LOW, !.buzzerTone = 0]
       ELSE m

\* Mutant of BlinkElaborate: the LED flips every second interval.
BlinkElaborate_Slow(m, currentMillis) ==
  IF ULong(currentMillis - m.previousLedMillis) >= 2 * ledInterval
  THEN [m EXCEPT !.previousLedMillis = currentMillis,
                 !.ledState = ~m.ledState,
                 !.ledPin = ~m.ledState]
  ELSE m

\* Mutant of BlinkElaborate: the timestamp advances by the interval instead
\* of being set to the clock reading.
BlinkElaborate_FixedStep(m, currentMillis) ==
  IF ULong(currentMillis - m.previousLedMillis) >= ledInterval
  THEN [m EXCEPT !.previousLedMillis = ULong(m.previousLedMillis + ledInterval),
                 !.ledState = ~m.ledState,
                 !.ledPin = ~m.ledState]
  ELSE m

\* Mutant of BlinkElaborate: the deadline is computed by addition and compared
\* with the clock, which is not safe when the counter wraps.
BlinkElaborate_Deadline(m, currentMillis) ==
  IF currentMillis >= m.previousLedMillis + ledInterval
  THEN [m EXCEPT !.previousLedMillis = currentMillis,
                 !.ledState = ~m.ledState,
                 !.ledPin = ~m.ledState]
  ELSE m

\* Mutant of BlinkElaborate: strict comparison, the flip waits one more ms.
BlinkElaborate_Strict(m, currentMillis) ==
  IF ULong(currentMillis - m.previousLedMillis) > ledInterval
  THEN [m EXCEPT !.previousLedMillis = currentMillis,
                 !.ledState = ~m.ledState,
                 !.ledPin = ~m.ledState]
  ELSE m

\* Blink main LED every 100ms
BlinkElaborate(m, currentMillis) ==
  IF ULong(currentMillis - m.previousLedMillis) >= ledInterval
  THEN [m EXCEPT !.previousLedMillis = currentMillis,
                 !.ledState = ~m.ledState,
                 !.ledPin = ~m.ledState]
  ELSE m

\* Mutant of ToneSwitch: the two frequencies are exchanged.
ToneSwitch_Frequencies(m, currentMillis) ==
  CASE m.toneState \in {PAUSE1, PAUSE2} ->
         [m EXCEPT !.buzzerTone = 0,
                   !.toneState = IF m.toneState = PAUSE1 THEN BOO ELSE BEEP,
                   !.previousBuzzerMillis = ULong(currentMillis + buzzerSilence)]
    [] m.toneState = BEEP ->
         [m EXCEPT !.buzzerTone = 600,
                   !.toneState = PAUSE1,
                   !.previousBuzzerMillis = currentMillis]
    [] m.toneState = BOO ->
         [m EXCEPT !.buzzerTone = 1000,
                   !.toneState = PAUSE2,
                   !.previousBuzzerMillis = currentMillis]

\* Mutant of ToneSwitch: the two targets of the pause case are swapped, so
\* PAUSE1 leads back to BEEP and PAUSE2 to BOO.
ToneSwitch_Swapped(m, currentMillis) ==
  CASE m.toneState \in {PAUSE1, PAUSE2} ->
         [m EXCEPT !.buzzerTone = 0,
                   !.toneState = IF m.toneState = PAUSE1 THEN BEEP ELSE BOO,
                   !.previousBuzzerMillis = ULong(currentMillis + buzzerSilence)]
    [] m.toneState = BEEP ->
         [m EXCEPT !.buzzerTone = 1000,
                   !.toneState = PAUSE1,
                   !.previousBuzzerMillis = currentMillis]
    [] m.toneState = BOO ->
         [m EXCEPT !.buzzerTone = 600,
                   !.toneState = PAUSE2,
                   !.previousBuzzerMillis = currentMillis]

\* switch (toneState)
ToneSwitch(m, currentMillis) ==
  CASE m.toneState \in {PAUSE1, PAUSE2} ->
         [m EXCEPT !.buzzerTone = 0,
                   !.toneState = IF m.toneState = PAUSE1 THEN BOO ELSE BEEP,
                   !.previousBuzzerMillis = ULong(currentMillis + buzzerSilence)]
    [] m.toneState = BEEP ->
         [m EXCEPT !.buzzerTone = 1000,
                   !.toneState = PAUSE1,
                   !.previousBuzzerMillis = currentMillis]
    [] m.toneState = BOO ->
         [m EXCEPT !.buzzerTone = 600,
                   !.toneState = PAUSE2,
                   !.previousBuzzerMillis = currentMillis]

\* Handle buzzer tone switching
BuzzerElaborate(m, currentMillis) ==
  IF ULong(currentMillis - m.previousBuzzerMillis) >= buzzerInterval
  THEN ToneSwitch(m, currentMillis)
  ELSE m

\* Mutant of ActiveElaborate: the green LED is not turned off while active.
ActiveElaborate_GreenStaysOn(m, currentMillis) ==
  IF m.isActive
  THEN BuzzerElaborate(BlinkElaborate(m, currentMillis), currentMillis)
  ELSE [m EXCEPT !.greenPin = HIGH]

\* if (isActive) { ... } else { ... }
ActiveElaborate(m, currentMillis) ==
  IF m.isActive
  THEN BuzzerElaborate(BlinkElaborate([m EXCEPT !.greenPin = LOW], currentMillis),
                       currentMillis)
  ELSE [m EXCEPT !.greenPin = HIGH]

\* One iteration of loop(): cmd is the byte read, NoByte if none is available.
loopElaborate(m, cmd, currentMillis) ==
  ActiveElaborate(IF cmd = NoByte THEN m ELSE CommandElaborate(m, cmd),
                  currentMillis)

(* ----------------------------- simple variant -------------------------- *)

Simple ==
  [isActive |-> isActive, previousMillis |-> previousMillis, state |-> state,
   ledPin |-> ledPin, buzzerPin |-> buzzerPin]

\* Mutant of CommandSimple: '1' also restarts the blink (phase and timer are
\* reset on every activation command).
CommandSimple_Restart(m, cmd) ==
  IF cmd = "1" THEN [m EXCEPT !.isActive = TRUE, !.state = FALSE,
                              !.previousMillis = 0]
  ELSE IF cmd = "0"
       THEN [m EXCEPT !.isActive = FALSE, !.ledPin = LOW, !.buzzerPin = LOW]
       ELSE m

CommandSimple(m, cmd) ==
  IF cmd = "1" THEN [m EXCEPT !.isActive = TRUE]
  ELSE IF cmd = "0"
       THEN [m EXCEPT !.isActive = FALSE, !.ledPin = LOW, !.buzzerPin = LOW]
       ELSE m

\* Mutant of BlinkSimple: the buzzer is not written on a flip.
BlinkSimple_LedOnly(m, currentMillis) ==
  IF ULong(currentMillis - m.previousMillis) >= blinkInterval
  THEN [m EXCEPT !.previousMillis = currentMillis,
                 !.state = ~m.state,
                 !.ledPin = ~m.state]
  ELSE m

\* Mutant of BlinkSimple: the timestamp is not updated on a flip.
BlinkSimple_NoStamp(m, currentMillis) ==
  IF ULong(currentMillis - m.previousMillis) >= blinkInterval
  THEN [m EXCEPT !.state = ~m.state,
                 !.ledPin = ~m.state,
                 !.buzzerPin = ~m.state]
  ELSE m

BlinkSimple(m, currentMillis) ==
  IF ULong(currentMillis - m.previousMillis) >= blinkInterval
  THEN [m EXCEPT !.previousMillis = currentMillis,
                 !.state = ~m.state,
                 !.ledPin = ~m.state,
                 !.buzzerPin = ~m.state]
  ELSE m

\* Mutant of ActiveSimple: the blink runs whether or not isActive is set.
ActiveSimple_Ungated(m, currentMillis) == BlinkSimple(m, currentMillis)

ActiveSimple(m, currentMillis) ==
  IF m.isActive THEN BlinkSimple(m, currentMillis) ELSE m

loopSimple(m, cmd, currentMillis) ==
  ActiveSimple(IF cmd = NoByte THEN m ELSE CommandSimple(m, cmd), currentMillis)

(* ------------------------------- actions ------------------------------- *)

\* The globals as initialised, at boot; the output pins are low and no tone
\* is generated until the sketch writes to them.
Init ==
  /\ variant \in {"simple", "elaborate"}
  /\ pc = "setup"
  /\ now = 0
  /\ rx = <<>>
  /\ isActive = FALSE
  /\ previousLedMillis = 0
  /\ ledState = FALSE
  /\ previousBuzzerMillis = 0
  /\ toneState = PAUSE2
  /\ previousMillis = 0
  /\ state = FALSE
  /\ ledPin = LOW
  /\ greenPin = LOW
  /\ buzzerPin = LOW
  /\ buzzerTone = 0
  /\ justRead = NoIteration
  /\ ledStamp = 0
  /\ toneSince = 0
  /\ ledRun = FALSE
  /\ toneRun = FALSE
  /\ afterTone = FALSE
  /\ pendingSince = NotPending

SetupElaborate ==
  /\ variant = "elaborate"
  /\ pc = "setup"
  /\ pc' = "loop"
  /\ greenPin' = HIGH
  /\ UNCHANGED <<variant, now, rx, isActive, previousLedMillis, ledState,
                 previousBuzzerMillis, toneState, previousMillis, state, ledPin,
                 buzzerPin, buzzerTone, justRead, ledStamp, toneSince,
                 ledRun, toneRun,
                 afterTone, pendingSince>>

SetupSimple ==
  /\ variant = "simple"
  /\ pc = "setup"
  /\ pc' = "loop"
  /\ UNCHANGED <<variant, now, rx, isActive, previousLedMillis, ledState,
                 previousBuzzerMillis, toneState, previousMillis, state, ledPin,
                 greenPin, buzzerPin, buzzerTone, justRead, ledStamp, toneSince,
                 ledRun, toneRun,
                 afterTone, pendingSince>>

\* Serial.available() / Serial.read(): the oldest byte held, if any.
\* Mutant of WritesElaborate: the idle indicator is switched off after the
\* blink instead of before it.
WritesElaborate_GreenLate(m, cmd, currentMillis) ==
  LET c == IF cmd = NoByte THEN m ELSE CommandElaborate(m, cmd)
      ledLow == [c EXCEPT !.buzzerTone = m.buzzerTone]
      b == BlinkElaborate(c, currentMillis)
      g == [b EXCEPT !.greenPin = LOW]
      z == BuzzerElaborate(g, currentMillis)
  IN <<m, ledLow, c>> \o (IF c.isActive THEN <<b, g, z>>
                                         ELSE <<[c EXCEPT !.greenPin = HIGH]>>)

\* The outputs after each output write of one call of loop(), in the order of
\* the source: the state on entry, after digitalWrite(LED_PIN, LOW) of '0',
\* after noTone of '0', then either after digitalWrite(LED_PIN_GREEN, LOW),
\* after the blink's write and after the sequencer's write, or after
\* digitalWrite(LED_PIN_GREEN, HIGH).
WritesElaborate(m, cmd, currentMillis) ==
  LET c == IF cmd = NoByte THEN m ELSE CommandElaborate(m, cmd)
      ledLow == [c EXCEPT !.buzzerTone = m.buzzerTone]
      g == [c EXCEPT !.greenPin = LOW]
      b == BlinkElaborate(g, currentMillis)
      z == BuzzerElaborate(b, currentMillis)
  IN <<m, ledLow, c>> \o (IF c.isActive THEN <<g, b, z>>
                                         ELSE <<[c EXCEPT !.greenPin = HIGH]>>)

\* Mutant of SerialRest: a read leaves the byte in the receiver.
SerialRest_Keep == rx

\* Mutant of SerialRest: a read empties the receiver.
SerialRest_Flush == <<>>

SerialRead == IF rx = <<>> THEN NoByte ELSE Head(rx)

SerialRest == IF rx = <<>> THEN rx ELSE Tail(rx)

\* The activation that still waits for the LED, after an iteration that ends
\* with isActive = active and the LED pin at level led: none when the
\* iteration ends inactive or with the LED high, this iteration when it has
\* activated, else as before.
PendingAfter(active, led) ==
  IF ~active \/ led = HIGH THEN NotPending
  ELSE IF ~isActive THEN now
  ELSE pendingSince

\* Whether, after an iteration that ends with isActive = active, an event
\* (a flip, a change of toneState) has happened in the current active period:
\* it happened in this iteration, or it had and the period continues.
RunAfter(active, happened, run) == active /\ (happened \/ (isActive /\ run))

LoopElaborate ==
  /\ variant = "elaborate"
  /\ pc = "loop"
  /\ LET r == loopElaborate(Elaborate, SerialRead, millis)
     IN /\ isActive' = r.isActive
        /\ previousLedMillis' = r.previousLedMillis
        /\ ledState' = r.ledState
        /\ previousBuzzerMillis' = r.previousBuzzerMillis
        /\ toneState' = r.toneState
        /\ ledPin' = r.ledPin
        /\ greenPin' = r.greenPin
        /\ buzzerTone' = r.buzzerTone
        /\ ledStamp' = IF r.ledState # ledState THEN now ELSE ledStamp
        /\ toneSince' = IF r.toneState # toneState THEN now ELSE toneSince
        /\ ledRun' = RunAfter(r.isActive, r.ledPin # ledPin, ledRun)
        /\ toneRun' = RunAfter(r.isActive, r.toneState # toneState, toneRun)
        /\ afterTone' = IF r.toneState # toneState
                        THEN r.isActive /\ buzzerTone # 0 /\ r.buzzerTone = 0
                        ELSE r.isActive /\ afterTone
        /\ pendingSince' = PendingAfter(r.isActive, r.ledPin)
  /\ justRead' = SerialRead
  /\ rx' = SerialRest
  /\ UNCHANGED <<variant, pc, now, previousMillis, state, buzzerPin>>

LoopSimple ==
  /\ variant = "simple"
  /\ pc = "loop"
  /\ LET r == loopSimple(Simple, SerialRead, millis)
     IN /\ isActive' = r.isActive
        /\ previousMillis' = r.previousMillis
        /\ state' = r.state
        /\ ledPin' = r.ledPin
        /\ buzzerPin' = r.buzzerPin
        /\ ledStamp' = IF r.state # state THEN now ELSE ledStamp
        /\ ledRun' = RunAfter(r.isActive, r.ledPin # ledPin, ledRun)
        /\ pendingSince' = PendingAfter(r.isActive, r.ledPin)
  /\ justRead' = SerialRead
  /\ rx' = SerialRest
  /\ UNCHANGED <<variant, pc, now, previousLedMillis, ledState,
                 previousBuzzerMillis, toneState, greenPin, buzzerTone, toneSince,
                 toneRun, afterTone>>

\* A byte arrives at the serial receiver.
Receive ==
  /\ pc = "loop"
  /\ Len(rx) < MaxQueue
  /\ \E b \in Bytes : rx' = Append(rx, b)
  /\ justRead' = NoIteration
  /\ UNCHANGED <<variant, pc, now, isActive, previousLedMillis, ledState,
                 previousBuzzerMillis, toneState, previousMillis, state, ledPin,
                 greenPin, buzzerPin, buzzerTone, ledStamp, toneSince,
                 ledRun, toneRun,
                 afterTone, pendingSince>>

\* The start of the second epoch: WrapLead ms before the counter wraps.
LateStart == Modulus - WrapLead

\* The end of the epoch the clock is in.
Horizon == IF now < LateStart THEN MaxTime ELSE LateStart + WrapSpan

\* The clock advances between two iterations.
Tick ==
  /\ pc = "loop"
  /\ now + Quantum <= Horizon
  /\ now' = now + Quantum
  /\ justRead' = NoIteration
  /\ UNCHANGED <<variant, pc, rx, isActive, previousLedMillis, ledState,
                 previousBuzzerMillis, toneState, previousMillis, state, ledPin,
                 greenPin, buzzerPin, buzzerTone, ledStamp, toneSince,
                 ledRun, toneRun,
                 afterTone, pendingSince>>

\* The device idles from boot until shortly before the counter wraps: every
\* iteration in between finds no byte and isActive false, and changes nothing.
Idle ==
  /\ pc = "loop"
  /\ now = 0
  /\ ~isActive
  /\ rx = <<>>
  /\ now' = LateStart
  /\ justRead' = NoIteration
  /\ UNCHANGED <<variant, pc, rx, isActive, previousLedMillis, ledState,
                 previousBuzzerMillis, toneState, previousMillis, state, ledPin,
                 greenPin, buzzerPin, buzzerTone, ledStamp, toneSince,
                 ledRun, toneRun,
                 afterTone, pendingSince>>

Next ==
  \/ SetupElaborate
  \/ SetupSimple
  \/ LoopElaborate
  \/ LoopSimple
  \/ Receive
  \/ Tick
  \/ Idle

Spec == Init /\ [][Next]_vars

(* ------------------------------- claims -------------------------------- *)

\* The state is the state at the end of an iteration of loop().
AtIterationEnd == justRead # NoIteration

\* The buzzer is off: no tone is generated and the pin is low.
BuzzerSilent == buzzerTone = 0 /\ buzzerPin = LOW

\* C1: in both variants the iteration that reads '0' ends with isActive false,
\* the main LED low and the buzzer silent, whatever the LED phase, the tone
\* state and the timers are.
C1_ZeroForcesQuiescent ==
  justRead = "0" => (~isActive /\ ledPin = LOW /\ BuzzerSilent)

\* A '0' has just been read in the millisecond in which the LED went high and
\* the 1000 Hz tone started.
C1_Witness ==
  /\ justRead = "0"
  /\ ledState = TRUE /\ ledStamp = now
  /\ toneState = PAUSE1 /\ toneSince = now

\* The successor of a tone state in the cycle
\* BEEP -> PAUSE_AFTER_BEEP -> BOO -> PAUSE_AFTER_BOO -> BEEP.
CycleNext(t) ==
  CASE t = BEEP -> PAUSE1
    [] t = PAUSE1 -> BOO
    [] t = BOO -> PAUSE2
    [] t = PAUSE2 -> BEEP

\* C3: in the elaborate variant every change of toneState is one step of the
\* cycle BEEP -> PAUSE1 -> BOO -> PAUSE2 -> BEEP, under any bytes and clock
\* advances (no state skipped, repeated out of order or reset), and no state
\* is terminal: from every state the switch leads to its successor.
C3_ToneCycle ==
  /\ [](ToneSwitch(Elaborate, millis).toneState = CycleNext(toneState))
  /\ [][toneState' # toneState => toneState' = CycleNext(toneState)]_vars

\* The sequencer has come back to its initial state PAUSE2 within one active
\* period: it went through BEEP, PAUSE1 and BOO.
C3_Witness == isActive /\ toneRun /\ toneState = PAUSE2

\* C5: while the device is inactive (from the iteration that reads '0' to the
\* one that next reads '1', and from startup to the first '1') the main LED is
\* low and the buzzer silent at the end of every iteration, and no step that
\* ends inactive flips the LED phase, moves the tone state or touches a
\* timestamp, however far the clock has advanced.
C5_QuiescentWhileInactive ==
  /\ [](~isActive => (ledPin = LOW /\ BuzzerSilent))
  /\ [][~isActive' =>
         /\ ledState' = ledState /\ state' = state /\ toneState' = toneState
         /\ previousLedMillis' = previousLedMillis
         /\ previousMillis' = previousMillis
         /\ previousBuzzerMillis' = previousBuzzerMillis]_vars

\* An iteration has just run while inactive with the LED phase left true, the
\* tone state left at PAUSE1 and both timers long overdue.
C5_Witness ==
  /\ ~isActive /\ justRead = NoByte
  /\ ledState = TRUE /\ toneState = PAUSE1
  /\ now - ledStamp >= 2 * ledInterval
  /\ now - toneSince >= buzzerInterval + buzzerSilence

\* C9: in the elaborate variant the green idle LED is high after setup() and
\* at the end of every iteration its level is the negation of isActive.
C9_GreenIsNotActive ==
  (variant = "elaborate" /\ pc = "loop") => (greenPin = ~isActive)

\* An iteration has ended active, with the green LED low.
C9_Witness ==
  variant = "elaborate" /\ AtIterationEnd /\ isActive /\ greenPin = LOW
\* The globals and outputs of the running variant after an iteration that
\* finds no byte available at the current clock reading.
AsIfNoByte ==
  IF variant = "elaborate"
  THEN Elaborate' = loopElaborate(Elaborate, NoByte, millis)
  ELSE Simple' = loopSimple(Simple, NoByte, millis)

\* C6: an iteration that reads a byte other than '0' and '1' ends with
\* isActive, every output level, the LED phase, the tone state and both
\* timestamps exactly as an iteration at the same clock reading that finds no
\* byte available.
C6_OtherByteIgnored == [][justRead' = "x" => AsIfNoByte]_vars

\* An 'x' has just been read while active, in the millisecond of an LED flip
\* and of the start of a tone.
C6_Witness ==
  /\ justRead = "x" /\ isActive
  /\ ledPin = HIGH /\ ledStamp = now
  /\ buzzerTone = 1000 /\ toneSince = now

\* C7: reading '1' while isActive is already true is idempotent: the LED
\* phase, the tone state, both timestamps and all output levels end the
\* iteration as after an iteration at the same clock reading with no byte.
C7_OneWhileActiveIdempotent ==
  [][(isActive /\ justRead' = "1") => AsIfNoByte]_vars

\* A '1' has just been read in an active period in which the LED has flipped
\* and the tone state has changed already.
C7_Witness == justRead = "1" /\ isActive /\ ledRun /\ toneRun /\ ledPin = HIGH
\* The LED interval of the running variant.
LedInterval == IF variant = "simple" THEN blinkInterval ELSE ledInterval

\* The elapsed-time check of the running variant fires at the current clock
\* reading: the blink would flip the LED phase.
LedCheckFires ==
  IF variant = "simple"
  THEN BlinkSimple(Simple, millis).state # state
  ELSE BlinkElaborate(Elaborate, millis).ledState # ledState

\* C10: the LED elapsed-time check is correct across the wrap of the clock:
\* as long as the true time since the last LED flip (since boot, before the
\* first flip) is below 2^w, the check on the wrapped counter fires exactly
\* when that true time is at least the interval.
C10_WrapSafeCheck ==
  (now - ledStamp < Modulus) => (LedCheckFires <=> now - ledStamp >= LedInterval)

\* The counter has wrapped since the last flip of an active period, and the
\* next flip is due.
C10_Witness ==
  /\ isActive /\ ledRun
  /\ ledStamp < Modulus /\ now >= Modulus
  /\ now - ledStamp >= LedInterval

\* C4 as claimed: while active, consecutive flips of the LED output are spaced
\* by exactly the interval, within the 1 ms resolution of the clock.
C4_ExactSpacing ==
  [][(isActive' /\ ledRun /\ ledPin' # ledPin) =>
       (now - ledStamp >= LedInterval /\ now - ledStamp <= LedInterval + 1)]_vars

\* C4 as amended: while active, consecutive flips of the LED output are at
\* least one interval apart, and no iteration ends with a flip overdue: the
\* flip is made by the first iteration that reads the clock at or after one
\* interval past the previous flip.
C4_SpacingAtLeastInterval ==
  /\ [][(isActive' /\ ledRun /\ ledPin' # ledPin) =>
          now - ledStamp >= LedInterval]_vars
  /\ []((AtIterationEnd /\ isActive /\ ledRun) => now - ledStamp < LedInterval)

\* An iteration has just made the second or a later flip of an active period:
\* the output went high and is low again.
C4_Witness ==
  AtIterationEnd /\ isActive /\ ledRun /\ ledPin = LOW /\ ledStamp = now

\* The time the sequencer is claimed to hold a tone state.
Hold(t) ==
  IF t \in {PAUSE1, PAUSE2} THEN buzzerInterval + buzzerSilence
  ELSE buzzerInterval

\* C2 as claimed: while continuously active the sequencer leaves a PAUSE state
\* 500 ms and a BEEP or BOO state 300 ms after entering it, within one
\* iteration's latency: never earlier, and no iteration ends with the state
\* held for that long.
C2_HoldTimes ==
  /\ [][(isActive' /\ toneRun /\ toneState' # toneState) =>
          now - toneSince >= Hold(toneState)]_vars
  /\ []((AtIterationEnd /\ isActive /\ toneRun) =>
          now - toneSince < Hold(toneState))

(* --------------------- the activation scenario ------------------------- *)

InitScenario == Init /\ variant = "elaborate"

\* The byte '1' arrives at t = 0; no other byte ever arrives.
ScenarioReceive ==
  /\ pc = "loop"
  /\ now = 0
  /\ ~isActive
  /\ rx = <<>>
  /\ rx' = <<"1">>
  /\ justRead' = NoIteration
  /\ UNCHANGED <<variant, pc, now, isActive, previousLedMillis, ledState,
                 previousBuzzerMillis, toneState, previousMillis, state, ledPin,
                 greenPin, buzzerPin, buzzerTone, ledStamp, toneSince,
                 ledRun, toneRun,
                 afterTone, pendingSince>>

\* The clock advances once the '1' has been read at t = 0.
ScenarioTick == isActive /\ Tick

NextScenario ==
  \/ SetupElaborate
  \/ ScenarioReceive
  \/ LoopElaborate
  \/ ScenarioTick

\* The elaborate variant from boot, with '1' read at t = 0 and no further byte.
SpecScenario == InitScenario /\ [][NextScenario]_vars

\* The part of the scenario about the main LED: it is low before t = 100 ms,
\* an iteration at t = 100 ms ends with it high, and an iteration at
\* t = 200 ms that follows a flip at t = 100 ms sets it low.
ScenarioLed ==
  /\ [](now < ledInterval => ledPin = LOW)
  /\ []((AtIterationEnd /\ now = ledInterval) =>
          (ledPin = HIGH /\ ledStamp = ledInterval))
  /\ [][(now = 2 * ledInterval /\ ledStamp = ledInterval
          /\ justRead' # NoIteration) => ledPin' = LOW]_vars

\* C8 as claimed: with '1' read at t = 0 and no further byte, the LED goes
\* high at t = 100 ms and low at t = 200 ms, and the iteration at t = 300 ms
\* enters BEEP with the buzzer emitting 1000 Hz.
C8_ScenarioAsClaimed ==
  /\ ScenarioLed
  /\ [][(now = buzzerInterval /\ toneState = PAUSE2 /\ justRead' # NoIteration)
          => (toneState' = BEEP /\ buzzerTone' = 1000)]_vars

\* C8 as amended: the LED goes high at t = 100 ms and low at t = 200 ms; the
\* iteration at t = 300 ms sets toneState to BEEP and leaves the buzzer
\* silent; the 1000 Hz tone starts with the next step of the sequencer, the
\* one that moves toneState from BEEP to PAUSE1.
C8_Scenario ==
  /\ ScenarioLed
  /\ [][(now = buzzerInterval /\ toneState = PAUSE2 /\ justRead' # NoIteration)
          => (toneState' = BEEP /\ buzzerTone' = 0)]_vars
  /\ [][(toneState = BEEP /\ toneState' # toneState)
          => (toneState' = PAUSE1 /\ buzzerTone' = 1000)]_vars
  /\ []((toneSince = 0 \/ toneState = BEEP) => buzzerTone = 0)

\* The iteration at t = 300 ms has run: the LED has flipped and toneState has
\* just become BEEP.
C8_Witness ==
  /\ AtIterationEnd /\ now = buzzerInterval
  /\ ledStamp = now /\ ledPin = HIGH
  /\ toneState = BEEP /\ toneSince = now

\* C11: in the simple variant the buzzer output level equals the main LED
\* output level in every state, and the two levels change only together, in
\* an iteration that reads '0' or that flips the phase.
C11_BuzzerFollowsLed ==
  /\ [](variant = "simple" => buzzerPin = ledPin)
  /\ [][(variant = "simple" /\ (ledPin' # ledPin \/ buzzerPin' # buzzerPin)) =>
          /\ ledPin' # ledPin /\ buzzerPin' # buzzerPin
          /\ (justRead' = "0" \/ state' # state)]_vars

\* A flip of the simple variant has just set the LED and the buzzer high.
C11_Witness ==
  /\ variant = "simple" /\ AtIterationEnd /\ isActive
  /\ ledPin = HIGH /\ buzzerPin = HIGH /\ ledStamp = now

\* The buzzer output that each tone state is claimed to have.
ClaimedTone(t) ==
  CASE t = BEEP -> 1000
    [] t = BOO -> 600
    [] t \in {PAUSE1, PAUSE2} -> 0

\* C13 as claimed: in every state in which isActive has been true since the
\* tone state was entered, the buzzer emits 1000 Hz in BEEP, 600 Hz in BOO and
\* is silent in PAUSE1 and PAUSE2.
C13_ToneMatchesStateAsClaimed ==
  (variant = "elaborate" /\ isActive /\ toneRun) =>
    buzzerTone = ClaimedTone(toneState)

\* C13 as amended: toneState names the step the sequencer takes next, so in
\* every state in which isActive has been true since the tone state was
\* entered, the buzzer emits 1000 Hz in PAUSE1 (entered by the BEEP step),
\* 600 Hz in PAUSE2 (entered by the BOO step) and is silent in BEEP and BOO
\* (entered by the pause step).
C13_ToneMatchesPreviousStep ==
  (variant = "elaborate" /\ isActive /\ toneRun) =>
    /\ toneState = PAUSE1 => buzzerTone = 1000
    /\ toneState = PAUSE2 => buzzerTone = 600
    /\ toneState \in {BEEP, BOO} => buzzerTone = 0

\* The sequencer has taken the BOO step in the current active period: the
\* tone state is PAUSE2 and the buzzer emits 600 Hz.
C13_Witness ==
  isActive /\ toneRun /\ toneState = PAUSE2 /\ buzzerTone = 600

\* The LED phase variable of the running variant.
LedPhase == IF variant = "simple" THEN state ELSE ledState

\* C15: in both variants, at the end of every iteration, the main LED pin is
\* high exactly when the LED phase variable (ledState / state) is true.
C15_PinIsPhaseAsClaimed == ledPin = LedPhase

\* What the code keeps between the pin and the phase variable: the pin is high
\* only when the phase variable is true, the two are equal from the first flip
\* of the LED output in an active period until the next '0', and the pin is
\* low after a '0' whatever the phase variable holds.
PinImpliesPhase ==
  /\ ledPin = HIGH => LedPhase = TRUE
  /\ (isActive /\ ledRun) => ledPin = LedPhase
  /\ (justRead = "0" \/ ~isActive) => ledPin = LOW

\* A '0' has just been read in the millisecond in which the phase became true:
\* the pin is low and the phase variable is still true.
StalePhase ==
  justRead = "0" /\ LedPhase = TRUE /\ ledPin = LOW /\ ledStamp = now

\* The last-toggle timestamp of the running variant.
LedMillis == IF variant = "simple" THEN previousMillis ELSE previousLedMillis

\* C16 as claimed: the last-LED-toggle timestamp never decreases and every
\* update increases it by exactly the LED interval.
C16_FixedStepsAsClaimed ==
  [][LedMillis' # LedMillis => LedMillis' = LedMillis + LedInterval]_vars

\* C16 as amended: every update sets the last-LED-toggle timestamp to the
\* clock reading of the iteration, which is at least (not exactly) one LED
\* interval past the old value in unsigned arithmetic; the time of the latest
\* flip never decreases, while the stored value decreases when the counter has
\* wrapped since the previous flip.
C16_StepsAtLeastInterval ==
  /\ [][LedMillis' # LedMillis =>
          /\ LedMillis' = millis
          /\ ULong(LedMillis' - LedMillis) >= LedInterval
          /\ (LedMillis' < LedMillis => now >= Modulus /\ ledStamp < Modulus)]_vars
  /\ [][ledStamp' >= ledStamp]_vars

\* The timestamp has just been set to a clock reading after the wrap, in an
\* active period in which the LED had flipped before.
C16_Witness ==
  /\ AtIterationEnd /\ isActive /\ ledRun
  /\ ledStamp = now /\ now > Modulus /\ LedMillis = millis

\* C17: in the elaborate variant every iteration that ends inactive (the one
\* that reads '0' and every one while inactive) leaves the tone state, the LED
\* phase and both timestamps unchanged, no step between iterations changes
\* them, and the first change of the tone state in an active period moves it
\* to the successor of the tone state that was held.
C17_DeactivationKeepsSequencer ==
  /\ [][(variant = "elaborate" /\ (~isActive' \/ justRead' = NoIteration)) =>
          /\ toneState' = toneState
          /\ ledState' = ledState
          /\ previousLedMillis' = previousLedMillis
          /\ previousBuzzerMillis' = previousBuzzerMillis]_vars
  /\ [][(variant = "elaborate" /\ ~toneRun /\ toneRun') =>
          toneState' = CycleNext(toneState)]_vars

\* An iteration has read '1' after a deactivation that left the LED phase true
\* and the tone state BEEP, and has made the first sequencer transition of the
\* new active period, from BEEP to PAUSE1.
C17_Witness ==
  /\ variant = "elaborate" /\ justRead = "1" /\ isActive
  /\ toneRun /\ toneSince = now /\ toneState = PAUSE1
  /\ ledState = TRUE /\ ledPin = LOW /\ ~ledRun

\* C18: an iteration consumes the head of the receiver when there is one and
\* nothing otherwise, and acts on that byte; the bytes behind it stay in
\* order; no other step removes a byte; with '0' then '1' queued the iteration
\* ends inactive with the outputs quiescent and '1' still queued, and the
\* next iteration sets isActive.
C18_OneByteInOrder ==
  /\ [][justRead' # NoIteration =>
          IF rx = <<>>
          THEN justRead' = NoByte /\ rx' = rx
          ELSE justRead' = Head(rx) /\ rx' = Tail(rx)]_vars
  /\ [][justRead' = NoIteration =>
          (rx' = rx \/ \E b \in Bytes : rx' = Append(rx, b))]_vars
  /\ [][(rx = <<"0", "1">> /\ justRead' # NoIteration) =>
          /\ rx' = <<"1">>
          /\ ~isActive' /\ ledPin' = LOW /\ buzzerTone' = 0 /\ buzzerPin' = LOW]_vars
  /\ [][(rx = <<"1">> /\ justRead' # NoIteration) =>
          (isActive' /\ rx' = <<>>)]_vars

\* With '0' then '1' queued while active and the LED phase true, the first
\* iteration has read '0': the outputs are quiescent and '1' is still queued.
C18_Witness ==
  /\ justRead = "0" /\ rx = <<"1">> /\ ~isActive
  /\ LedPhase = TRUE /\ ledPin = LOW /\ BuzzerSilent

\* The idle indicator is not high together with the main LED or a tone.
Exclusive(m) == ~(m.greenPin = HIGH /\ (m.ledPin = HIGH \/ m.buzzerTone # 0))

\* The outputs after each write of the iteration that would run now.
WritesNow == WritesElaborate(Elaborate, SerialRead, millis)

\* C19: in the elaborate variant the idle indicator is never high together
\* with the main LED or a tone, in every state and after every single output
\* write of every iteration (the last of which gives the iteration's result).
C19_ExclusiveAtEveryWrite ==
  variant = "elaborate" =>
    /\ Exclusive(Elaborate)
    /\ pc = "loop" =>
         /\ \A i \in DOMAIN WritesNow : Exclusive(WritesNow[i])
         /\ WritesNow[Len(WritesNow)] = loopElaborate(Elaborate, SerialRead, millis)

\* The iteration that would run now reads '1' with the idle indicator high,
\* switches the indicator off and then switches the main LED on.
C19_Witness ==
  /\ variant = "elaborate" /\ pc = "loop" /\ greenPin = HIGH
  /\ SerialRead = "1"
  /\ WritesNow[Len(WritesNow)].ledPin = HIGH
  /\ WritesNow[Len(WritesNow)].greenPin = LOW

\* The clock advances between two iterations, within the first LiveSpan
\* milliseconds after boot.
TickLive == now + Quantum <= LiveSpan /\ Tick

NextLive ==
  \/ SetupElaborate
  \/ SetupSimple
  \/ LoopElaborate
  \/ LoopSimple
  \/ Receive
  \/ TickLive

\* The sketch under fair scheduling: setup() returns and loop() is called
\* again whenever a call can change anything (loop() neither blocks nor
\* sleeps, and the Arduino core calls it forever).
SpecFair ==
  /\ Init
  /\ [][NextLive]_vars
  /\ WF_vars(SetupElaborate \/ SetupSimple)
  /\ WF_vars(LoopElaborate \/ LoopSimple)

\* The byte at position k of the receiver is b.
Held(k, b) == Len(rx) >= k /\ rx[k] = b

\* The state at the end of an iteration that has read '0'.
ZeroServed ==
  justRead = "0" /\ ~isActive /\ ledPin = LOW /\ BuzzerSilent

\* C12: under fair scheduling of loop iterations every byte held by the
\* receiver is eventually read, and a '0' held by the receiver is eventually
\* read by an iteration that ends inactive with the LED low and the buzzer
\* silent, whatever the LED and tone phases are; each iteration moves every
\* held byte one position forward and serves the head, and no other step
\* moves a held byte, so a '0' with k bytes ahead is served by iteration k+1.
C12_Responsive ==
  /\ \A k \in 1..MaxQueue : \A b \in Bytes :
        Held(k, b) ~> (IF b = "0" THEN ZeroServed ELSE justRead = b)
  /\ [][\A k \in 1..MaxQueue : Held(k, "0") =>
          IF justRead' = NoIteration THEN Held(k, "0")'
          ELSE IF k = 1 THEN ZeroServed'
          ELSE Held(k - 1, "0")']_vars

\* A '0' has been served while the LED phase was true and the sequencer was
\* in mid-cycle.
C12_Witness ==
  /\ ZeroServed /\ LedPhase = TRUE
  /\ (variant = "elaborate" => toneState = PAUSE1)
  /\ (variant = "simple" => previousMillis # 0)

\* C14: in the elaborate variant, while continuously active, a tone starts at
\* least buzzerSilence (200 ms) after the sequencer has silenced the previous
\* tone.
C14_SilenceAfterTone ==
  [][(variant = "elaborate" /\ afterTone /\ buzzerTone' # 0) =>
       now' - toneSince >= buzzerSilence]_vars

\* An activation waits for the LED to go high.
Pending == pendingSince # NotPending

====
